---- MODULE Spec2Model ----
(***************************************************************************)
(* A model of the Texas ISD finance repository: the data preparation       *)
(* script (scripts/prepare_data.py), the loader                            *)
(* (scripts/import_to_supabase.py), the HTTP service (src/api.py) and the  *)
(* natural-language engine (src/nlp_engine.py).                            *)
(*                                                                         *)
(* Python strings are sequences of one-character strings.  Each part of    *)
(* the program has its own variables and its own specification; a          *)
(* specification leaves the other parts' variables at their idle values.   *)
(***************************************************************************)
EXTENDS Integers, Sequences, FiniteSets, TLC

VARIABLES
    cdn_pc, cdn_x, cdn_s, cdn_ret,       \* clean_district_number: position, argument x, local s, return value
    sc_pc, sc_name, sc_ret,              \* to_snake_case: position, argument name, return value
    col_pc, df_columns, col_i, seen, col_mapping,  \* prepare_data's rename loop (lines 36-48)
    ty_pc, df, df_raw, ty_i,             \* prepare_data's type loop (lines 51-60): position, the frame, the frame as renamed, loop index
    env_db_url, csv, table, import_result,   \* SUPABASE_DB_URL is set; data/texas_finance_clean.csv; texas_school_finance; how the last run of import_data ended
    db_up, response, query_ret,          \* the store is reachable; the last HTTP response; what nlp_engine.query returned in the last request
    request                              \* the year and flag_type get_anomalies was called with, when the last request was its

cdn_vars == <<cdn_pc, cdn_x, cdn_s, cdn_ret>>
sc_vars == <<sc_pc, sc_name, sc_ret>>
col_vars == <<col_pc, df_columns, col_i, seen, col_mapping>>

ty_vars == <<ty_pc, df, df_raw, ty_i>>

st_vars == <<env_db_url, csv, table, import_result, db_up, response, query_ret, request>>

vars == <<cdn_vars, sc_vars, col_vars, ty_vars, st_vars>>

\* what each part leaves alone
cdn_others == <<sc_vars, col_vars, ty_vars, st_vars>>
sc_others == <<cdn_vars, col_vars, ty_vars, st_vars>>
col_others == <<cdn_vars, sc_vars, ty_vars, st_vars>>
ty_others == <<cdn_vars, sc_vars, col_vars, st_vars>>
st_others == <<cdn_vars, sc_vars, col_vars, ty_vars>>

----------------------------------------------------------------------------
(* Bounds of the model *)

\* longest district-number cell drawn as input
MaxLen == 7

----------------------------------------------------------------------------
(* Python values and string methods *)

None == [k |-> "None"]
Str(v) == [k |-> "str", v |-> v]

Whitespace == {" "}
Digits == {"0", "1", "2", "3", "4", "5", "6", "7", "8", "9"}
Quote == "'"

\* the characters district-number cells are drawn from
CellChars == {Quote, " ", "0", "7", "x"}

\* every string over chars of length at most n
StringsUpTo(chars, n) == UNION {[1..m -> chars] : m \in 0..n}

RECURSIVE lstrip(_, _)
lstrip(str, chars) ==
    IF str = <<>> \/ Head(str) \notin chars THEN str ELSE lstrip(Tail(str), chars)

RECURSIVE rstrip(_, _)
rstrip(str, chars) ==
    IF str = <<>> \/ str[Len(str)] \notin chars THEN str
    ELSE rstrip(SubSeq(str, 1, Len(str) - 1), chars)

\* str.strip() / str.strip(chars): both ends
strip(str, chars) == rstrip(lstrip(str, chars), chars)

\* str.isdigit(): non-empty and every character a digit
isdigit(str) == str # <<>> /\ \A i \in DOMAIN str : str[i] \in Digits

\* the district-number width passed to zfill
ZfillWidth == 6

\* zfill with the padding on the wrong side: zeros on the right
RECURSIVE zfill_padright(_, _)
zfill_padright(str, width) ==
    IF Len(str) >= width THEN str ELSE zfill_padright(str \o <<"0">>, width)

\* str.zfill(width) on a string without a sign: '0's on the left up to width
RECURSIVE zfill(_, _)
zfill(str, width) ==
    IF Len(str) >= width THEN str ELSE zfill(<<"0">> \o str, width)

----------------------------------------------------------------------------
(* scripts/prepare_data.py: clean_district_number *)

\* line 13: s = str(x).strip().lstrip("'").lstrip("'")
cdn_strip(v) == lstrip(lstrip(strip(v, Whitespace), {Quote}), {Quote})

\* lines 11-16, the value returned for x
clean_district_number(x) ==
    IF x = None THEN None
    ELSE LET s == cdn_strip(x.v)
         IN  IF isdigit(s) THEN Str(zfill(s, ZfillWidth)) ELSE Str(s)

cdn_Idle == cdn_pc = "idle" /\ cdn_x = None /\ cdn_s = <<>> /\ cdn_ret = None

\* a cell of the DISTRICT NUMBER column: missing, or any short string
cdn_Init ==
    /\ cdn_pc = "call"
    /\ cdn_x \in {None} \cup {Str(v) : v \in StringsUpTo(CellChars, MaxLen)}
    /\ cdn_s = <<>>
    /\ cdn_ret = None

\* the call clean_district_number(x), as df[...].apply makes it
CleanDistrictNumber ==
    /\ cdn_pc = "call"
    /\ cdn_pc' = "done"
    /\ cdn_s' = IF cdn_x = None THEN <<>> ELSE cdn_strip(cdn_x.v)
    /\ cdn_ret' = clean_district_number(cdn_x)
    /\ UNCHANGED <<cdn_x, cdn_others>>

\* the call clean_district_number(clean_district_number(x)): the function
\* applied to the value it returned
CleanDistrictNumberAgain ==
    /\ cdn_pc = "done"
    /\ cdn_pc' = "done again"
    /\ cdn_x' = cdn_ret
    /\ cdn_s' = IF cdn_ret = None THEN <<>> ELSE cdn_strip(cdn_ret.v)
    /\ cdn_ret' = clean_district_number(cdn_ret)
    /\ UNCHANGED cdn_others

----------------------------------------------------------------------------
(* scripts/prepare_data.py: to_snake_case *)

UpperLetters == {"A", "T"}
LowerLetters == {"a", "t", "x"}

\* str.lower(), character by character
lower_char(c) == CASE c = "A" -> "a" [] c = "T" -> "t" [] OTHER -> c
lower(str) == [i \in DOMAIN str |-> lower_char(str[i])]

\* the class [0-9a-zA-Z] of line 21
IsAlnum(c) == c \in Digits \cup UpperLetters \cup LowerLetters

\* re.sub(r'[^0-9a-zA-Z]+', '_', s): each maximal run outside the class
\* becomes one underscore; inRun says the previous character was in a run
RECURSIVE sub_non_alnum(_, _)
sub_non_alnum(str, inRun) ==
    IF str = <<>> THEN <<>>
    ELSE IF IsAlnum(Head(str)) THEN <<Head(str)>> \o sub_non_alnum(Tail(str), FALSE)
    ELSE (IF inRun THEN <<>> ELSE <<"_">>) \o sub_non_alnum(Tail(str), TRUE)

\* re.sub(r'_{2,}', '_', s): each run of two or more underscores becomes one
RECURSIVE sub_underscores(_, _)
sub_underscores(str, inRun) ==
    IF str = <<>> THEN <<>>
    ELSE IF Head(str) # "_" THEN <<Head(str)>> \o sub_underscores(Tail(str), FALSE)
    ELSE (IF inRun THEN <<>> ELSE <<"_">>) \o sub_underscores(Tail(str), TRUE)

\* s[:n]
slice_to(str, n) == SubSeq(str, 1, IF Len(str) < n THEN Len(str) ELSE n)

\* the length line 23 cuts a name to
SnakeMaxLen == 60

\* to_snake_case cutting at 63 characters instead
to_snake_case_cut63(name) ==
    LET s1 == lower(strip(name, Whitespace))
        s2 == sub_non_alnum(s1, FALSE)
        s3 == strip(sub_underscores(s2, FALSE), {"_"})
    IN  slice_to(s3, 63)

\* lines 20-23
to_snake_case(name) ==
    LET s1 == lower(strip(name, Whitespace))
        s2 == sub_non_alnum(s1, FALSE)
        s3 == strip(sub_underscores(s2, FALSE), {"_"})
    IN  slice_to(s3, SnakeMaxLen)

\* the characters raw column names are drawn from
NameChars == {"A", "1", " ", "_"}

\* n copies of the letter a: the body of a long column name
RECURSIVE Filler(_)
Filler(n) == IF n = 0 THEN <<>> ELSE <<"a">> \o Filler(n - 1)

\* longest prefix and suffix put around the body of a name
MaxAffix == 2
\* the bodies run from SnakeMaxLen - FillBelow to SnakeMaxLen + FillAbove letters
FillBelow == 3
FillAbove == 4

\* raw column names: short ones, and long ones around the cut
RawNames ==
    {pre \o Filler(n) \o post :
        pre \in StringsUpTo(NameChars, MaxAffix),
        post \in StringsUpTo(NameChars, MaxAffix),
        n \in {0} \cup ((SnakeMaxLen - FillBelow)..(SnakeMaxLen + FillAbove))}

sc_Idle == sc_pc = "idle" /\ sc_name = <<>> /\ sc_ret = <<>>

sc_Init == sc_pc = "call" /\ sc_name \in RawNames /\ sc_ret = <<>>

\* the call to_snake_case(col) of line 39
ToSnakeCase ==
    /\ sc_pc = "call"
    /\ sc_pc' = "done"
    /\ sc_ret' = to_snake_case(sc_name)
    /\ UNCHANGED <<sc_name, sc_others>>

----------------------------------------------------------------------------
(* scripts/prepare_data.py: prepare_data, the rename loop of lines 36-48 *)

DigitChar(d) == CASE d = 0 -> "0" [] d = 1 -> "1" [] d = 2 -> "2" [] d = 3 -> "3"
                  [] d = 4 -> "4" [] d = 5 -> "5" [] d = 6 -> "6" [] d = 7 -> "7"
                  [] d = 8 -> "8" [] d = 9 -> "9"

\* str(i) of a natural number, as the f-string of line 43 formats it
RECURSIVE str_int(_)
str_int(n) == IF n < 10 THEN <<DigitChar(n)>> ELSE str_int(n \div 10) \o <<DigitChar(n % 10)>>

\* first_free as an if instead of a while: one suffix is tried and taken unseen
first_free_once(base, candidate, i, taken) ==
    IF candidate \in taken THEN base \o <<"_">> \o str_int(i) ELSE candidate

\* lines 40-44: the while loop, from candidate and i, over the names taken
RECURSIVE first_free(_, _, _, _)
first_free(base, candidate, i, taken) ==
    IF candidate \in taken THEN first_free(base, base \o <<"_">> \o str_int(i), i + 1, taken)
    ELSE candidate

\* most columns of a sheet
MaxCols == 4

\* the raw column names sheets are made of
ColumnPool ==
    { <<"a">>, <<"A">>, <<" ", "a">>, <<"a", " ", "1">>, <<"A", "_", "1">>,
      <<"a", "_", "1", "_", "1">>, <<"a", " ", "2">> }

\* df.columns as read_excel gives them: pairwise distinct
Sheets ==
    {c \in UNION {[1..m -> ColumnPool] : m \in 0..MaxCols} :
        \A i, j \in DOMAIN c : i # j => c[i] # c[j]}

col_Idle ==
    /\ col_pc = "idle" /\ df_columns = <<>> /\ col_i = 0 /\ seen = {} /\ col_mapping = <<>>

\* lines 36-37: col_mapping = {}, seen = set()
col_Init ==
    /\ col_pc = "loop"
    /\ df_columns \in Sheets
    /\ col_i = 1
    /\ seen = {}
    /\ col_mapping = <<>>

\* lines 38-46: one pass of the for loop, for col = df.columns[col_i];
\* col_mapping[k] is the name mapped to the k-th column
RenameStep ==
    /\ col_pc = "loop"
    /\ col_i <= Len(df_columns)
    /\ LET base == to_snake_case(df_columns[col_i])
           candidate == first_free(base, base, 1, seen)
       IN  /\ seen' = seen \cup {candidate}
           /\ col_mapping' = Append(col_mapping, candidate)
    /\ col_i' = col_i + 1
    /\ UNCHANGED <<col_pc, df_columns, col_others>>

\* line 48: df.rename(columns=col_mapping, inplace=True), after the loop
Rename ==
    /\ col_pc = "loop"
    /\ col_i > Len(df_columns)
    /\ col_pc' = "renamed"
    /\ UNCHANGED <<df_columns, col_i, seen, col_mapping, col_others>>

----------------------------------------------------------------------------
(* scripts/prepare_data.py: prepare_data, the type loop of lines 51-60 *)

\* pandas cells: a missing value, a number, an Int16 value (Str is a text cell).
\* A number is its whole part and its fraction digits without trailing zeros.
NaN == [k |-> "NaN"]
Num(whole, frac) == [k |-> "num", whole |-> whole, frac |-> frac]
Int16Value(n) == [k |-> "Int16", n |-> n]
NA == [k |-> "NA"]

DigitValue(c) == CASE c = "0" -> 0 [] c = "1" -> 1 [] c = "2" -> 2 [] c = "3" -> 3
                   [] c = "4" -> 4 [] c = "5" -> 5 [] c = "6" -> 6 [] c = "7" -> 7
                   [] c = "8" -> 8 [] c = "9" -> 9

\* the value of a digit string
RECURSIVE digits_value(_)
digits_value(str) ==
    IF str = <<>> THEN 0
    ELSE 10 * digits_value(SubSeq(str, 1, Len(str) - 1)) + DigitValue(str[Len(str)])

\* where the first "." of str is, 0 when it has none
RECURSIVE find_dot(_, _)
find_dot(str, i) ==
    IF i > Len(str) THEN 0 ELSE IF str[i] = "." THEN i ELSE find_dot(str, i + 1)

\* the number an unsigned decimal text stands for (digits, or digits "." digits),
\* NaN for any other text: what errors="coerce" makes of a text cell
parse_number(str) ==
    LET dot == find_dot(str, 1)
        whole == IF dot = 0 THEN str ELSE SubSeq(str, 1, dot - 1)
        frac == IF dot = 0 THEN <<>> ELSE SubSeq(str, dot + 1, Len(str))
    IN  IF isdigit(whole) /\ (dot = 0 \/ isdigit(frac))
        THEN Num(digits_value(whole), rstrip(frac, {"0"}))
        ELSE NaN

\* pd.to_numeric(cell, errors="coerce")
to_numeric_cell(cell) ==
    CASE cell.k = "str" -> parse_number(cell.v)
      [] cell.k = "num" -> cell
      [] OTHER -> NaN

\* pd.to_numeric(column, errors="coerce")
to_numeric(cells) == [i \in DOMAIN cells |-> to_numeric_cell(cells[i])]

\* the range of the Int16 dtype of line 56
Int16Min == -32768
Int16Max == 32767

\* whether astype("Int16") can cast the number: it is whole and in range
int16_castable(cell) ==
    cell.k = "num" => (cell.frac = <<>> /\ cell.whole >= Int16Min /\ cell.whole <= Int16Max)

\* .astype("Int16") of a numeric column every value of which can be cast
astype_int16(cells) ==
    [i \in DOMAIN cells |->
        IF cells[i].k = "num" THEN Int16Value(cells[i].whole) ELSE NA]

\* nums.notna().mean() >= 0.9, in whole numbers: the mean is over every row,
\* and the mean of no rows is NaN, which is not >= 0.9
notna_count(cells) == Cardinality({i \in DOMAIN cells : cells[i].k # "NaN"})
mostly_numeric(nums) == Len(nums) > 0 /\ 10 * notna_count(nums) >= 9 * Len(nums)

Column(name, dtype, cells) == [name |-> name, dtype |-> dtype, cells |-> cells]

\* most rows of a frame with a year column, and of a frame with a data column
MaxYearRows == 3
MaxRows == 10

\* the cells year columns are made of
YearCells ==
    { NaN, Num(2020, <<>>), Str(<<"2", "0", "2", "1">>), Str(<<"x">>),
      Str(<<"2", "0", ".", "5">>), Str(<<"4", "0", "0", "0", "0">>) }

\* the cells data columns are made of
DataCells == { NaN, Str(<<"7">>), Str(<<"x">>) }

\* the dtype read_excel gives a column of these cells
dtype_of(cells) ==
    IF \E i \in DOMAIN cells : cells[i].k = "str" THEN "object"
    ELSE IF \A i \in DOMAIN cells : cells[i].k = "num" /\ cells[i].frac = <<>> THEN "int64"
    ELSE "float64"

\* the frames after the rename: an identifier column and a year column, or a
\* single data column
Frames ==
    { << Column("district_number", "object", [i \in 1..n |-> Str(<<"0", "0", "0", "0", "0", "1">>)]),
         Column("year", dtype_of(y), y) >> :
        n \in 0..MaxYearRows, y \in UNION {[1..m -> YearCells] : m \in 0..MaxYearRows} }
    \cup { << Column("total_revenue", dtype_of(c), c) >> :
            c \in UNION {[1..m -> DataCells] : m \in 0..MaxRows} }

ty_Idle == ty_pc = "idle" /\ df = <<>> /\ df_raw = <<>> /\ ty_i = 0

ty_Init ==
    /\ ty_pc = "loop"
    /\ df \in {f \in Frames : \A i, j \in DOMAIN f : Len(f[i].cells) = Len(f[j].cells)}
    /\ df_raw = df
    /\ ty_i = 1

\* lines 53-54: an identifier column is passed over
ConvertSkip ==
    /\ ty_pc = "loop" /\ ty_i <= Len(df)
    /\ df[ty_i].name \in {"district_number", "district_name"}
    /\ ty_i' = ty_i + 1
    /\ UNCHANGED <<ty_pc, df, df_raw, ty_others>>

\* lines 55-56: the year column, when every number in it can be cast
ConvertYear ==
    /\ ty_pc = "loop" /\ ty_i <= Len(df)
    /\ df[ty_i].name = "year"
    /\ LET nums == to_numeric(df[ty_i].cells)
       IN  /\ \A i \in DOMAIN nums : int16_castable(nums[i])
           /\ df' = [df EXCEPT ![ty_i] = Column("year", "Int16", astype_int16(nums))]
    /\ ty_i' = ty_i + 1
    /\ UNCHANGED <<ty_pc, df_raw, ty_others>>

\* lines 55-56: astype raises TypeError (cannot safely cast non-equivalent
\* float64 to int16) on a fractional or out-of-range year; nothing catches it
ConvertYearRaises ==
    /\ ty_pc = "loop" /\ ty_i <= Len(df)
    /\ df[ty_i].name = "year"
    /\ LET nums == to_numeric(df[ty_i].cells)
       IN  \E i \in DOMAIN nums : ~int16_castable(nums[i])
    /\ ty_pc' = "raised"
    /\ UNCHANGED <<df, df_raw, ty_i, ty_others>>

\* lines 57-60: any other column
ConvertOther ==
    /\ ty_pc = "loop" /\ ty_i <= Len(df)
    /\ df[ty_i].name \notin {"district_number", "district_name", "year"}
    /\ LET nums == to_numeric(df[ty_i].cells)
       IN  df' = IF mostly_numeric(nums)
                 THEN [df EXCEPT ![ty_i] = Column(df[ty_i].name, "float64", nums)]
                 ELSE df
    /\ ty_i' = ty_i + 1
    /\ UNCHANGED <<ty_pc, df_raw, ty_others>>

\* lines 62-89: the frame is written out and returned
Save ==
    /\ ty_pc = "loop" /\ ty_i > Len(df)
    /\ ty_pc' = "saved"
    /\ UNCHANGED <<df, df_raw, ty_i, ty_others>>

----------------------------------------------------------------------------
(* scripts/import_to_supabase.py: import_data, and the table texas_school_finance *)

\* an optional request parameter or field
Absent == <<>>
Given(v) == <<v>>

FinanceRow(dn, name, yr, rev, spend, enr) ==
    [ district_number |-> dn, district_name |-> name, year |-> yr,
      total_revenue |-> rev, total_spend |-> spend, enrollment |-> enr ]

\* the reporting years of the data set (api.py bounds its year parameters by them)
MinYear == 2008
MaxYear == 2024

\* district 000001, "At": a filing for every year, level until revenue falls
\* and spending jumps in the last one
District1Row(y) ==
    FinanceRow("000001", <<"A", "t">>, y,
               IF y = MaxYear THEN 80 ELSE 100, IF y = MaxYear THEN 130 ELSE 100, 10)
District1Rows == [i \in 1..(MaxYear - MinYear + 1) |-> District1Row(MinYear + i - 1)]

\* district 000002, "Ta": two filings, enrollment falling in the second
District2Rows ==
    << FinanceRow("000002", <<"T", "a">>, 2023, 100, 100, 10),
       FinanceRow("000002", <<"T", "a">>, 2024, 100, 100, 8) >>

\* district 000003, "x": no filing for 2023; between its two filings revenue
\* and enrollment halve and spending rises by half
District3Rows ==
    << FinanceRow("000003", <<"x">>, 2022, 200, 100, 20),
       FinanceRow("000003", <<"x">>, 2024, 100, 150, 10) >>

\* the prepared CSV files: in each, one row per district and year
CsvPool ==
    { SubSeq(District2Rows, 2, 2), District2Rows, District1Rows, District1Rows \o District2Rows,
      District3Rows }

AllRows ==
    {District1Rows[i] : i \in DOMAIN District1Rows} \cup {District2Rows[i] : i \in DOMAIN District2Rows}
        \cup {District3Rows[i] : i \in DOMAIN District3Rows}

\* most copies of one row the table comes to hold: import_data runs while
\* fewer are held
MaxCopies == 6

\* the table holds each row some number of times
EmptyTable == [r \in AllRows |-> 0]
table_len(tbl, rows) == IF rows = {} THEN 0 ELSE
    LET RECURSIVE sum(_)
        sum(S) == IF S = {} THEN 0 ELSE LET r == CHOOSE x \in S : TRUE IN tbl[r] + sum(S \ {r})
    IN  sum(rows)

\* lines 44-51: df.to_sql("texas_school_finance", ..., if_exists="append")
to_sql(tbl, rows) ==
    [r \in AllRows |-> tbl[r] + Cardinality({i \in DOMAIN rows : rows[i] = r})]

\* lines 13-51: one run of the script
ImportData ==
    /\ \A r \in AllRows : table[r] < MaxCopies
    /\ IF ~env_db_url
       THEN import_result' = "ValueError" /\ UNCHANGED table
       ELSE IF ~csv.exists
       THEN import_result' = "FileNotFoundError" /\ UNCHANGED table
       ELSE IF ~db_up
       THEN import_result' = "OperationalError" /\ UNCHANGED table
       ELSE import_result' = "ok" /\ table' = to_sql(table, csv.rows)
    /\ UNCHANGED <<env_db_url, csv, db_up, response, query_ret, request, st_others>>

\* the store becomes unreachable, and reachable again
StoreGoesDown ==
    /\ db_up
    /\ db_up' = FALSE
    /\ UNCHANGED <<env_db_url, csv, table, import_result, response, query_ret, request, st_others>>

StoreComesUp ==
    /\ ~db_up
    /\ db_up' = TRUE
    /\ UNCHANGED <<env_db_url, csv, table, import_result, response, query_ret, request, st_others>>

----------------------------------------------------------------------------
(* The views v_finance_summary and v_anomaly_flags, after sections 3 and 4.3 *)
(* of the specification: the SQL that defines them is not among the sources *)

\* the distinct rows of v_finance_summary
view_rows(tbl) == {r \in AllRows : tbl[r] > 0}

\* a variant: the same district's latest earlier rows, whatever their year
prior_rows_latest_earlier(tbl, r) ==
    {p \in view_rows(tbl) :
        /\ p.district_number = r.district_number /\ p.year < r.year
        /\ \A q \in view_rows(tbl) : q.district_number = r.district_number /\ q.year < r.year => q.year <= p.year}

\* the same district's rows of the year before
prior_rows(tbl, r) ==
    {p \in AllRows : p.district_number = r.district_number /\ p.year = r.year - 1 /\ tbl[p] > 0}

\* how far enrollment may move and count as flat, in percent
FlatEnrollmentPct == 2

Abs(n) == IF n < 0 THEN -n ELSE n

revenue_drop_flag(tbl, r) ==
    \E p \in prior_rows(tbl, r) :
        p.total_revenue > 0 /\ 100 * (p.total_revenue - r.total_revenue) > 15 * p.total_revenue

spend_spike_flag(tbl, r) ==
    \E p \in prior_rows(tbl, r) :
        /\ p.total_spend > 0 /\ 100 * (r.total_spend - p.total_spend) > 20 * p.total_spend
        /\ p.enrollment > 0 /\ 100 * Abs(r.enrollment - p.enrollment) <= FlatEnrollmentPct * p.enrollment

per_student_spike_flag(tbl, r) ==
    \E p \in prior_rows(tbl, r) :
        /\ p.enrollment > 0 /\ r.enrollment > 0 /\ p.total_spend > 0
        /\ 100 * r.total_spend * p.enrollment > 115 * p.total_spend * r.enrollment

enrollment_decline_flag(tbl, r) ==
    \E p \in prior_rows(tbl, r) :
        p.enrollment > 0 /\ 100 * (p.enrollment - r.enrollment) > 10 * p.enrollment

\* a row of v_anomaly_flags
anomaly_row(tbl, r) ==
    r @@ [ revenue_drop_flag |-> revenue_drop_flag(tbl, r),
           spend_spike_flag |-> spend_spike_flag(tbl, r),
           per_student_spike_flag |-> per_student_spike_flag(tbl, r),
           enrollment_decline_flag |-> enrollment_decline_flag(tbl, r) ]

any_flag(a) ==
    a.revenue_drop_flag \/ a.spend_spike_flag \/ a.per_student_spike_flag \/ a.enrollment_decline_flag

----------------------------------------------------------------------------
(* SQL: ORDER BY, LIMIT, ILIKE *)

CharRank(c) == CASE c \in {"A", "a"} -> 1 [] c \in {"T", "t"} -> 2 [] c = "x" -> 3 [] OTHER -> 0
name_key(name) == [i \in DOMAIN name |-> CharRank(name[i])]

\* the order of two sort keys, sequences of integers
RECURSIVE key_less(_, _)
key_less(a, b) ==
    IF b = <<>> THEN FALSE
    ELSE IF a = <<>> THEN TRUE
    ELSE IF Head(a) # Head(b) THEN Head(a) < Head(b)
    ELSE key_less(Tail(a), Tail(b))

\* ORDER BY: the rows of S by their keys.  In every table import_data can
\* build from CsvPool, rows with equal keys are equal, so the order is the
\* only one the store can answer with.
RECURSIVE order_by(_, _)
order_by(S, key) ==
    IF S = {} THEN <<>>
    ELSE LET first == CHOOSE r \in S : \A o \in S : ~key_less(key[o], key[r])
         IN  <<first>> \o order_by(S \ {first}, key)

\* each distinct row as many times as the table holds it
RECURSIVE with_duplicates(_, _)
with_duplicates(rows, tbl) ==
    IF rows = <<>> THEN <<>>
    ELSE [i \in 1..tbl[Head(rows)] |-> Head(rows)] \o with_duplicates(Tail(rows), tbl)

\* LIMIT n
sql_limit(rows, n) == SubSeq(rows, 1, IF Len(rows) < n THEN Len(rows) ELSE n)

\* name ILIKE '%pattern%', for a pattern without wildcards of its own
ilike_contains(name, pattern) ==
    \E i \in 1..(Len(name) - Len(pattern) + 1) :
        SubSeq(lower(name), i, i + Len(pattern) - 1) = lower(pattern)

----------------------------------------------------------------------------
(* src/api.py and src/nlp_engine.py *)

Response(endpoint, status, limit, rows, body) ==
    [endpoint |-> endpoint, status |-> status, limit |-> limit, rows |-> rows, body |-> body]

NoResponse == Response("", 0, Absent, <<>>, [kind |-> "none"])

\* FastAPI answers a request whose parameters fail their Query(...) bounds
ValidationError(endpoint) == Response(endpoint, 422, Absent, <<>>, [kind |-> "validation error"])
\* an exception no handler catches
InternalServerError(endpoint) == Response(endpoint, 500, Absent, <<>>, [kind |-> "internal server error"])

\* api.py lines 117 and 182: limit: int = Query(100, ge=1, le=500)
DefaultLimit == 100
MinLimit == 1
MaxLimit == 500

limit_value(limit) == IF limit = Absent THEN DefaultLimit ELSE limit[1]
limit_valid(limit) == limit = Absent \/ (limit[1] >= MinLimit /\ limit[1] <= MaxLimit)
year_valid(year) == year = Absent \/ (year[1] >= MinYear /\ year[1] <= MaxYear)

\* what requests are made of
LimitInputs == {Absent, Given(0), Given(2), Given(MaxLimit), Given(MaxLimit + 1)}
YearInputs == {Absent, Given(MinYear - 1), Given(MaxYear)}
SearchInputs == {Absent, Given(<<>>), Given(<<"t", "A">>), Given(<<"x">>)}
DistrictInputs == {"000001", "000002", "999999"}
FlagTypes == {"revenue_drop", "spend_spike", "per_student_spike", "enrollment_decline"}
FlagInputs == {Absent} \cup {Given(f) : f \in FlagTypes}
Questions == {"Which districts have declining enrollment?", "Show anomaly flags for districts in 2024"}

\* lines 114-139: GET /districts
list_districts(tbl, up, search, limit) ==
    IF ~limit_valid(limit) THEN ValidationError("/districts")
    ELSE IF ~up THEN InternalServerError("/districts")
    ELSE LET pairs == {[district_number |-> r.district_number, district_name |-> r.district_name] :
                          r \in {v \in view_rows(tbl) :
                                    (search # Absent /\ search[1] # <<>>) => ilike_contains(v.district_name, search[1])}}
             ordered == order_by(pairs, [q \in pairs |-> name_key(q.district_name)])
         IN  Response("/districts", 200, limit, sql_limit(ordered, limit_value(limit)), [kind |-> "rows"])

ListDistricts ==
    /\ env_db_url
    /\ \E search \in SearchInputs, limit \in LimitInputs :
           response' = list_districts(table, db_up, search, limit)
    /\ query_ret' = Absent /\ request' = Absent
    /\ UNCHANGED <<env_db_url, csv, table, import_result, db_up, st_others>>

\* lines 141-172: GET /district/{district_number}/summary
get_district_summary(tbl, up, district_number, start_year, end_year) ==
    IF ~year_valid(start_year) \/ ~year_valid(end_year) THEN ValidationError("/district/summary")
    ELSE IF ~up THEN InternalServerError("/district/summary")
    ELSE LET matching == {r \in view_rows(tbl) :
                             /\ r.district_number = district_number
                             /\ IF start_year # Absent /\ end_year # Absent
                                THEN r.year >= start_year[1] /\ r.year <= end_year[1]
                                ELSE IF start_year # Absent THEN r.year >= start_year[1]
                                ELSE IF end_year # Absent THEN r.year <= end_year[1]
                                ELSE TRUE}
             rows == with_duplicates(order_by(matching, [r \in matching |-> <<r.year>>]), tbl)
         IN  IF rows = <<>>
             THEN Response("/district/summary", 404, Absent, <<>>, [kind |-> "District not found"])
             ELSE Response("/district/summary", 200, Absent, rows, [kind |-> "rows"])

GetDistrictSummary ==
    /\ env_db_url
    /\ \E district_number \in DistrictInputs, start_year \in YearInputs, end_year \in YearInputs :
           response' = get_district_summary(table, db_up, district_number, start_year, end_year)
    /\ query_ret' = Absent /\ request' = Absent
    /\ UNCHANGED <<env_db_url, csv, table, import_result, db_up, st_others>>

flag_of(a, flag_type) ==
    CASE flag_type = "revenue_drop" -> a.revenue_drop_flag
      [] flag_type = "spend_spike" -> a.spend_spike_flag
      [] flag_type = "per_student_spike" -> a.per_student_spike_flag
      [] flag_type = "enrollment_decline" -> a.enrollment_decline_flag

\* lines 174-212: GET /anomalies
get_anomalies(tbl, up, year, flag_type, limit) ==
    IF ~year_valid(year) \/ ~limit_valid(limit) THEN ValidationError("/anomalies")
    ELSE IF ~up THEN InternalServerError("/anomalies")
    ELSE LET v_anomaly_flags == [r \in view_rows(tbl) |-> anomaly_row(tbl, r)]
             matching == {r \in view_rows(tbl) :
                             /\ year # Absent => r.year = year[1]
                             /\ flag_type # Absent => flag_of(v_anomaly_flags[r], flag_type[1])
                             /\ (year = Absent /\ flag_type = Absent) => any_flag(v_anomaly_flags[r])}
             ordered == order_by(matching, [r \in matching |-> <<-r.year>> \o name_key(r.district_name)])
             rows == sql_limit(with_duplicates(ordered, tbl), limit_value(limit))
         IN  Response("/anomalies", 200, limit, [i \in DOMAIN rows |-> v_anomaly_flags[rows[i]]], [kind |-> "rows"])

GetAnomalies ==
    /\ env_db_url
    /\ \E year \in YearInputs, flag_type \in FlagInputs, limit \in LimitInputs :
           /\ response' = get_anomalies(table, db_up, year, flag_type, limit)
           /\ request' = IF year_valid(year) /\ limit_valid(limit)
                          THEN Given([year |-> year, flag_type |-> flag_type])
                          ELSE Absent
    /\ query_ret' = Absent
    /\ UNCHANGED <<env_db_url, csv, table, import_result, db_up, st_others>>

\* lines 222-237: GET /stats
get_stats(tbl, up) ==
    IF ~up THEN InternalServerError("/stats")
    ELSE Response("/stats", 200, Absent, <<>>,
                  [ kind |-> "stats",
                    total_districts |-> Cardinality({r.district_number : r \in view_rows(tbl)}),
                    total_years |-> Cardinality({r.year : r \in view_rows(tbl)}),
                    total_records |-> table_len(tbl, view_rows(tbl)) ])

GetStats ==
    /\ env_db_url
    /\ response' = get_stats(table, db_up)
    /\ query_ret' = Absent /\ request' = Absent
    /\ UNCHANGED <<env_db_url, csv, table, import_result, db_up, st_others>>

\* lines 239-247: GET /health
health_check(up) ==
    IF up THEN Response("/health", 200, Absent, <<>>, [kind |-> "healthy"])
    ELSE Response("/health", 503, Absent, <<>>, [kind |-> "Database connection failed"])

HealthCheck ==
    /\ env_db_url
    /\ response' = health_check(db_up)
    /\ query_ret' = Absent /\ request' = Absent
    /\ UNCHANGED <<env_db_url, csv, table, import_result, db_up, st_others>>

\* how self.agent.invoke ends: with an "output", with a result that has none,
\* or with an exception; a store that cannot be reached ends it in one of the
\* last two ways or in an output that says so
AgentOutcomes == {"output", "no output", "raises"}

\* nlp_engine.py lines 95-116: TexasFinanceNLPEngine.query; a dict is the
\* function from its keys to their values
query(question, outcome) ==
    IF outcome = "raises"
    THEN [success |-> FALSE, error |-> "str(e)", question |-> question]
    ELSE [ success |-> TRUE,
           answer |-> IF outcome = "output" THEN "the agent's output" ELSE "No result returned",
           question |-> question ]

\* api.py lines 40-45: NLPQueryResponse(**result), answer and error optional
NLPQueryResponse(result) ==
    [ kind |-> "NLPQueryResponse",
      success |-> result.success,
      question |-> result.question,
      answer |-> IF "answer" \in DOMAIN result THEN Given(result.answer) ELSE Absent,
      error |-> IF "error" \in DOMAIN result THEN Given(result.error) ELSE Absent ]

\* api.py lines 101-112: POST /query
NlpQuery ==
    /\ env_db_url
    /\ \E question \in Questions, outcome \in AgentOutcomes :
           /\ query_ret' = Given(query(question, outcome))
           /\ request' = Absent
           /\ response' = Response("/query", 200, Absent, <<>>, NLPQueryResponse(query(question, outcome)))
    /\ UNCHANGED <<env_db_url, csv, table, import_result, db_up, st_others>>

st_Idle ==
    /\ env_db_url = FALSE /\ csv = [exists |-> FALSE] /\ table = EmptyTable
    /\ import_result = "" /\ db_up = FALSE /\ response = NoResponse /\ query_ret = Absent /\ request = Absent

\* before the first import: the environment and the prepared CSV are as the
\* operator left them, the table is empty
st_Init ==
    /\ env_db_url \in BOOLEAN
    /\ csv \in {[exists |-> FALSE]} \cup {[exists |-> TRUE, rows |-> c] : c \in CsvPool}
    /\ table = EmptyTable
    /\ import_result = ""
    /\ db_up \in BOOLEAN
    /\ response = NoResponse
    /\ query_ret = Absent
    /\ request = Absent

----------------------------------------------------------------------------
(* Specifications: one per part of the program *)

InitClean == cdn_Init /\ sc_Idle /\ col_Idle /\ ty_Idle /\ st_Idle
NextClean == CleanDistrictNumber
SpecClean == InitClean /\ [][NextClean]_vars

\* clean_district_number applied once, then to its own result
NextCleanTwice == CleanDistrictNumber \/ CleanDistrictNumberAgain
SpecCleanTwice == InitClean /\ [][NextCleanTwice]_vars

InitSnake == sc_Init /\ cdn_Idle /\ col_Idle /\ ty_Idle /\ st_Idle
NextSnake == ToSnakeCase
SpecSnake == InitSnake /\ [][NextSnake]_vars

InitCols == col_Init /\ cdn_Idle /\ sc_Idle /\ ty_Idle /\ st_Idle
NextCols == RenameStep \/ Rename
SpecCols == InitCols /\ [][NextCols]_vars

InitTypes == ty_Init /\ cdn_Idle /\ sc_Idle /\ col_Idle /\ st_Idle
NextTypes == ConvertSkip \/ ConvertYear \/ ConvertYearRaises \/ ConvertOther \/ Save
SpecTypes == InitTypes /\ [][NextTypes]_vars

InitStore == st_Init /\ cdn_Idle /\ sc_Idle /\ col_Idle /\ ty_Idle
NextStore ==
    \/ ImportData \/ StoreGoesDown \/ StoreComesUp
    \/ ListDistricts \/ GetDistrictSummary \/ GetAnomalies \/ GetStats \/ HealthCheck
    \/ NlpQuery
SpecStore == InitStore /\ [][NextStore]_vars

\* the store and GET /anomalies alone
NextAnomalies == ImportData \/ StoreGoesDown \/ StoreComesUp \/ GetAnomalies
SpecAnomalies == InitStore /\ [][NextAnomalies]_vars

----------------------------------------------------------------------------
(* Claims about clean_district_number *)

\* C1: whenever the cleaned value s is purely numeric with fewer than 6
\* digits, the returned string has exactly 6 characters: zeros, then the
\* digits of s.
C1_PadsToSix ==
    (cdn_pc = "done" /\ cdn_x # None /\ isdigit(cdn_s) /\ Len(cdn_s) < 6) =>
        /\ cdn_ret.k = "str"
        /\ Len(cdn_ret.v) = 6
        /\ \A i \in 1..(6 - Len(cdn_s)) : cdn_ret.v[i] = "0"
        /\ \A i \in 1..Len(cdn_s) : cdn_ret.v[6 - Len(cdn_s) + i] = cdn_s[i]

\* C1 witness: the quoted cell '77 was cleaned to 000077
C1_Witness ==
    /\ cdn_pc = "done"
    /\ cdn_x = Str(<<"'", "7", "7">>)
    /\ cdn_s = <<"7", "7">>
    /\ cdn_ret = Str(<<"0", "0", "0", "0", "7", "7">>)

\* what C2 calls the remainder: all surrounding quotes and whitespace, in
\* any nesting, removed from both ends
C2_Remainder(v) == strip(v, Whitespace \cup {Quote})

\* C2: for a non-null input the result is the remainder when the remainder
\* is numeric with 6 or more digits, and when it is not numeric.
C2_StripsAllSurrounding ==
    (cdn_pc = "done" /\ cdn_x # None) =>
        LET r == C2_Remainder(cdn_x.v)
        IN  /\ (isdigit(r) /\ Len(r) >= 6) => cdn_ret = Str(r)
            /\ ~isdigit(r) => cdn_ret = Str(r)

\* C13: clean_district_number is idempotent: applied to a value it returned,
\* it returns that value.
C13_Idempotent ==
    cdn_pc = "done again" => cdn_ret = cdn_x

----------------------------------------------------------------------------
(* Claims about prepare_data's type loop *)

\* the rows of a column, as loaded, that are not missing
C4_NonMissing(cells) == {i \in DOMAIN cells : cells[i].k # "NaN"}
\* those of them that parse as numbers
C4_Parsed(cells) == {i \in C4_NonMissing(cells) : to_numeric_cell(cells[i]).k = "num"}

\* C4: a column that is neither an identifier nor the year ends up numeric
\* if and only if at least 90% of its non-missing values parse as numbers.
C4_CoercedIffNinetyPercentOfNonMissing ==
    ty_pc = "saved" =>
        \A c \in DOMAIN df :
            (/\ df[c].name \notin {"district_number", "district_name", "year"}
             /\ C4_NonMissing(df_raw[c].cells) # {}) =>
                ( df[c].dtype = "float64" <=>
                  10 * Cardinality(C4_Parsed(df_raw[c].cells))
                      >= 9 * Cardinality(C4_NonMissing(df_raw[c].cells)) )

\* a year cell that is missing or is no small integer
C7_Malformed(cell) ==
    \/ cell.k = "NaN"
    \/ to_numeric_cell(cell).k = "NaN"
    \/ ~int16_castable(to_numeric_cell(cell))

\* C7: the batch is never aborted, and the frame written out has every input
\* row, with a null year wherever the input year was missing or malformed.
C7_NeverAbortsNullYear ==
    /\ ty_pc # "raised"
    /\ ty_pc = "saved" =>
        \A c \in DOMAIN df :
            /\ Len(df[c].cells) = Len(df_raw[c].cells)
            /\ df[c].name = "year" =>
                \A i \in DOMAIN df_raw[c].cells :
                    C7_Malformed(df_raw[c].cells[i]) => df[c].cells[i] = NA

----------------------------------------------------------------------------
(* Claims about the column names *)

\* the n-th name tried for a canonical name: the bare name, then name_1, name_2, ...
C5_Try(base, n) == IF n = 0 THEN base ELSE base \o <<"_">> \o str_int(n)

\* the columns among the first k whose canonical name is base, in sheet order
C5_Group(base, k) == {j \in 1..k : to_snake_case(df_columns[j]) = base}

\* C5 as stated: of the columns with one canonical name, the first seen has
\* the bare name and the n-th later one has name_n.
C5_SuffixesInFirstSeenOrder ==
    \A k \in DOMAIN col_mapping :
        LET base == to_snake_case(df_columns[k])
        IN  Cardinality(C5_Group(base, Len(col_mapping))) >= 2 =>
                col_mapping[k] = C5_Try(base, Cardinality(C5_Group(base, k)) - 1)

\* C5 as amended: every column has the first of name, name_1, name_2, ...
\* that no earlier column has; and where none of a group's names went to a
\* column outside the group, the group has the bare name, name_1, name_2, ...
\* in first-seen order.
C5_FirstFreeSuffix ==
    \A k \in DOMAIN col_mapping :
        LET base == to_snake_case(df_columns[k])
            earlier == {col_mapping[j] : j \in 1..(k - 1)}
            group == C5_Group(base, Len(col_mapping))
            outside == {col_mapping[j] : j \in DOMAIN col_mapping \ group}
        IN  /\ \E n \in 0..k :
                /\ col_mapping[k] = C5_Try(base, n)
                /\ col_mapping[k] \notin earlier
                /\ \A m \in 0..(n - 1) : C5_Try(base, m) \in earlier
            /\ (\A n \in 0..Cardinality(group) : C5_Try(base, n) \notin outside) =>
                    col_mapping[k] = C5_Try(base, Cardinality(C5_Group(base, k)) - 1)

\* C5 witness: "a 1", "a", "A" were renamed a_1, a, a_2: the second column
\* named a skips the name a_1, which is taken
C5_Witness ==
    /\ col_pc = "renamed"
    /\ df_columns = << <<"a", " ", "1">>, <<"a">>, <<"A">> >>
    /\ col_mapping = << <<"a", "_", "1">>, <<"a">>, <<"a", "_", "2">> >>

\* the reference form of a name: the words of the lower-cased name (its
\* maximal runs of letters and digits), joined by single underscores
RECURSIVE C6_Words(_, _)
C6_Words(str, word) ==
    IF str = <<>> THEN (IF word = <<>> THEN <<>> ELSE <<word>>)
    ELSE IF Head(str) \in Digits \cup LowerLetters THEN C6_Words(Tail(str), Append(word, Head(str)))
    ELSE (IF word = <<>> THEN <<>> ELSE <<word>>) \o C6_Words(Tail(str), <<>>)

RECURSIVE C6_Join(_)
C6_Join(words) ==
    IF words = <<>> THEN <<>>
    ELSE IF Len(words) = 1 THEN words[1]
    ELSE words[1] \o <<"_">> \o C6_Join(Tail(words))

C6_Reference(name, maxlen) ==
    LET joined == C6_Join(C6_Words([i \in DOMAIN name |-> lower_char(name[i])], <<>>))
    IN  [i \in 1..(IF Len(joined) < maxlen THEN Len(joined) ELSE maxlen) |-> joined[i]]

\* C6 as stated: to_snake_case returns the reference form cut to 63 characters.
C6_ReferenceFormCutTo63 ==
    sc_pc = "done" => sc_ret = C6_Reference(sc_name, 63)

\* C6 as amended: to_snake_case returns the reference form cut to 60 characters.
C6_ReferenceFormCutTo60 ==
    sc_pc = "done" => sc_ret = C6_Reference(sc_name, 60)

\* C6 witness: a name of more than 63 characters that starts with a capital
\* and a space came back lower-cased, joined by an underscore and 60
\* characters long
C6_Witness ==
    /\ sc_pc = "done"
    /\ Len(sc_name) > 63
    /\ SubSeq(sc_name, 1, 2) = <<"A", " ">>
    /\ Len(sc_ret) = 60
    /\ SubSeq(sc_ret, 1, 3) = <<"a", "_", "a">>

\* C14: the raw column names being pairwise distinct, the names prepare_data
\* maps them to are pairwise distinct, after every pass of the loop and when
\* the frame is renamed.
C14_NamesPairwiseDistinct ==
    \A i, j \in DOMAIN col_mapping : i # j => col_mapping[i] # col_mapping[j]

\* C14 witness: "a", "A", "a 1" were renamed a, a_1, a_1_1: the raw name that
\* reads as the suffixed name a_1 comes after that name was given out
C14_Witness ==
    /\ col_pc = "renamed"
    /\ df_columns = << <<"a">>, <<"A">>, <<"a", " ", "1">> >>
    /\ col_mapping = << <<"a">>, <<"a", "_", "1">>, <<"a", "_", "1", "_", "1">> >>

----------------------------------------------------------------------------
(* Claims about the store and the services *)

\* C3: whatever imports have run, the table holds at most one record for
\* each (district_number, year).
C3_OneRecordPerKey ==
    \A r \in AllRows :
        table_len(table, {q \in AllRows : q.district_number = r.district_number /\ q.year = r.year}) <= 1

\* C8: every row set returned by /districts, /district/{district_number}/summary
\* and /anomalies has at most limit rows, limit being the request's, 100 when
\* the request has none, and never more than 500.
C8_RowSetsCappedAtLimit ==
    (response.endpoint \in {"/districts", "/district/summary", "/anomalies"} /\ response.status = 200) =>
        LET limit == IF response.limit = Absent THEN 100 ELSE response.limit[1]
        IN  Len(response.rows) <= limit /\ limit <= 500

\* C9: a request that reaches its handler while the store is unreachable is
\* answered 503, on every endpoint that touches the store and on /query.
C9_UnreachableStoreIs503 ==
    [][ ( /\ ~db_up
          /\ response' # response
          /\ response'.endpoint \in {"/districts", "/district/summary", "/anomalies", "/stats", "/health", "/query"}
          /\ response'.status # 422 )
        => response'.status = 503 ]_vars

\* C10: whatever the agent does, query returns a dict with the key 'answer'.
C10_QueryReturnsAnswer ==
    query_ret # Absent => "answer" \in DOMAIN query_ret[1]

----------------------------------------------------------------------------
(* Claims about the anomaly flags *)

\* the table holds no row of r's district for the year before r's
C11_NoPriorYear(r) ==
    ~\E q \in AllRows : table[q] > 0 /\ q.district_number = r.district_number /\ q.year = r.year - 1

C11_AllFlagsFalse(a) ==
    /\ a.revenue_drop_flag = FALSE /\ a.spend_spike_flag = FALSE
    /\ a.per_student_spike_flag = FALSE /\ a.enrollment_decline_flag = FALSE

\* C11: a record whose district has no record for the year before (its first
\* reporting year, or the year after a gap) has all four anomaly flags false
\* in the anomaly view, and in every answer of GET /anomalies that carries it.
C11_FirstYearFlagsFalse ==
    /\ \A r \in AllRows :
           table[r] > 0 /\ C11_NoPriorYear(r) => C11_AllFlagsFalse(anomaly_row(table, r))
    /\ response.endpoint = "/anomalies" /\ response.status = 200 =>
           \A i \in DOMAIN response.rows :
               C11_NoPriorYear(response.rows[i]) => C11_AllFlagsFalse(response.rows[i])

\* district 000003's filings are stored, 2022 its first year and 2024 after
\* the gap, and GET /anomalies has answered with the 2024 one
C11_Witness ==
    /\ \A i \in DOMAIN District3Rows : table[District3Rows[i]] > 0
    /\ response.endpoint = "/anomalies" /\ response.status = 200
    /\ \E i \in DOMAIN response.rows :
           /\ response.rows[i].district_number = "000003" /\ response.rows[i].year = MaxYear
           /\ C11_NoPriorYear(response.rows[i])
           /\ ~any_flag(response.rows[i])

\* C12: whichever of year and flag_type a GET /anomalies request gives, every
\* row of its answer has at least one of the four flags true, and the flag
\* that flag_type names is true on every row.
C12_EveryRowFlagged ==
    response.endpoint = "/anomalies" /\ response.status = 200 /\ request # Absent =>
        \A i \in DOMAIN response.rows :
            /\ any_flag(response.rows[i])
            /\ request[1].flag_type # Absent => flag_of(response.rows[i], request[1].flag_type[1])

====
